---- MODULE Spec2Model ----
(***************************************************************************)
(* Feature/label engineering engine of V8H-CORE (feature_set_core.py):     *)
(* the batch assembler FeatureSetCore, the label builders, and the bounded *)
(* online extractor FeatureSetCoreRealtime.                                *)
(*                                                                         *)
(* Numbers are exact rationals (pandas uses float64): a cell is a record   *)
(* [k, n, d] with k = "num" for the rational n/d (d > 0, lowest terms),    *)
(* k = "nan" for an absent value (NaN / None), k = "str" for a Python      *)
(* string stored in a column, and k = "val" for a defined float whose      *)
(* magnitude is not modelled (the rolling standard deviation, which is     *)
(* irrational).  A DataFrame is a sequence of rows; a row is a function    *)
(* from column names to cells.                                             *)
(*                                                                         *)
(* The indicator periods and the window sizes of the source (20/50/200,    *)
(* 7/20/60, 14, 5, 20, 200) are scaled down to the small values named in   *)
(* the "scaled periods" section so that the tables stay enumerable; the    *)
(* formulas are written against the names, never against the values.       *)
(***************************************************************************)
EXTENDS Integers, Sequences, FiniteSets, TLC

VARIABLES window, buffer, sent, reads, result, raw, df, prev, lookahead,
          atr_period, pc

vars ==
  <<window, buffer, sent, reads, result, raw, df, prev, lookahead, atr_period,
    pc>>

rtVars == <<window, buffer, sent, reads, result>>

batchVars == <<raw, df, prev, lookahead, atr_period, pc>>

(***************************************************************************)
(* Scaled periods (the value in the source is given on each line).         *)
(***************************************************************************)
\* span of ema_20 (source: 20)
SpanFast == 2

\* span of ema_50 (source: 50)
SpanMid == 3

\* span of ema_200 (source: 200)
SpanSlow == 4

\* period of lwma_7 (source: 7)
LwmaFast == 2

\* period of lwma_20 (source: 20)
LwmaMid == 2

\* period of lwma_60 (source: 60)
LwmaSlow == 3

\* period of atr_14 (source: 14)
AtrPeriod == 2

\* lag of trend_slope, close.diff(5) (source: 5)
SlopeLag == 2

\* window of the rolling volatility and span of volume_ma (source: 20)
VolPeriod == 2

\* the literal 200 that to_numpy compares len(self.buffer) with (source: 200)
ReadyLen == 4

\* default of FeatureSetCoreRealtime.__init__'s window (source: 200)
DefaultWindow == 4

\* largest lookahead passed to the label builders (source default: 5)
MaxLookahead == 2

\* longest tick stream sent to one extractor
MaxUpdates == 5

\* longest bar table handed to the batch path
MaxRows == 6

\* largest period passed to atr on its own
MaxPeriod == 3

(***************************************************************************)
(* Program constants.                                                      *)
(***************************************************************************)
ZoneStep == 50

NearLimit == 10

\* threshold = atr_14 * 0.3, as the rational ThrNum / ThrDen
ThrNum == 3

ThrDen == 10

(***************************************************************************)
(* Cells and rational arithmetic with NaN propagation.                     *)
(***************************************************************************)
RECURSIVE Gcd(_, _)
Gcd(a, b) == IF b = 0 THEN a ELSE Gcd(b, a % b)

IAbs(i) == IF i < 0 THEN -i ELSE i

NaN == [k |-> "nan", n |-> 0, d |-> 1]

PriceStr == [k |-> "str", n |-> 0, d |-> 1]

Opaque == [k |-> "val", n |-> 0, d |-> 1]

Q(a, b) ==
  LET g == Gcd(IAbs(a), b)
  IN  [k |-> "num", n |-> a \div g, d |-> b \div g]

R(i) == [k |-> "num", n |-> i, d |-> 1]

IsNum(x) == x.k = "num"

IsNull(x) == x.k = "nan"

RAdd(x, y) ==
  IF IsNum(x) /\ IsNum(y) THEN Q(x.n * y.d + y.n * x.d, x.d * y.d) ELSE NaN

RSub(x, y) ==
  IF IsNum(x) /\ IsNum(y) THEN Q(x.n * y.d - y.n * x.d, x.d * y.d) ELSE NaN

\* x * (a / b) for integers a, b with b > 0
RScale(x, a, b) == IF IsNum(x) THEN Q(x.n * a, x.d * b) ELSE NaN

RAbs(x) == IF IsNum(x) THEN Q(IAbs(x.n), x.d) ELSE NaN

\* comparisons with NaN are False, as in IEEE 754
RGt(x, y) == IsNum(x) /\ IsNum(y) /\ x.n * y.d > y.n * x.d

RLt(x, y) == RGt(y, x)

RLe(x, y) == IsNum(x) /\ IsNum(y) /\ x.n * y.d <= y.n * x.d

\* (x // step) * step
FloorTo(x, step) ==
  IF IsNum(x) THEN R((x.n \div (x.d * step)) * step) ELSE NaN

\* (boolean series).astype(int)
AsInt(b) == IF b THEN R(1) ELSE R(0)

\* maximum of two cells that propagates NaN (max(axis=1, skipna=False))
RMax2Propagate(x, y) ==
  IF IsNull(x) \/ IsNull(y) THEN NaN ELSE IF RGt(y, x) THEN y ELSE x

\* maximum of two cells that skips NaN (DataFrame.max(axis=1), skipna=True)
RMax2(x, y) ==
  IF IsNull(x) THEN y ELSE IF IsNull(y) THEN x ELSE IF RGt(y, x) THEN y ELSE x

(***************************************************************************)
(* Series (sequences of cells), 1-indexed: position t is pandas row t-1.   *)
(***************************************************************************)
Col(frame, c) == [t \in 1..Len(frame) |-> frame[t][c]]

\* series.shift(k) at position t
Shift(s, k, t) == IF t - k >= 1 /\ t - k <= Len(s) THEN s[t - k] ELSE NaN

\* series.diff(k) at position t
Diff(s, k, t) == RSub(s[t], Shift(s, k, t))

(***************************************************************************)
(* Indicator library.                                                      *)
(***************************************************************************)
\* series.ewm(span=span, adjust=False).mean() at position t:
\* y[1] = x[1], y[t] = alpha*x[t] + (1-alpha)*y[t-1], alpha = 2/(span+1)
RECURSIVE EwmRecursive(_, _, _)
EwmRecursive(s, span, t) ==
  IF t = 1 THEN s[1]
  ELSE RScale(RAdd(RScale(s[t], 2, 1),
                   RScale(EwmRecursive(s, span, t - 1), span - 1, 1)),
              1, span + 1)

RECURSIVE Pow(_, _)
Pow(b, e) == IF e = 0 THEN 1 ELSE b * Pow(b, e - 1)

\* series.ewm(span=span).mean() (pandas' default adjust=True) is
\*   sum_i (1-alpha)^i * x[t-i] / sum_i (1-alpha)^i,  1-alpha = (span-1)/(span+1);
\* numerator and denominator are both scaled by (span+1)^(t-1) to stay integral
RECURSIVE EwmNum(_, _, _)
EwmNum(s, span, t) ==
  IF t = 1 THEN s[1]
  ELSE RAdd(RScale(s[t], Pow(span + 1, t - 1), 1),
            RScale(EwmNum(s, span, t - 1), span - 1, 1))

RECURSIVE EwmDen(_, _)
EwmDen(span, t) ==
  IF t = 1 THEN 1
  ELSE Pow(span + 1, t - 1) + (span - 1) * EwmDen(span, t - 1)

EwmAdjusted(s, span, t) == RScale(EwmNum(s, span, t), 1, EwmDen(span, t))

\* FeatureSetCore.ema
ema(s, period, t) == EwmRecursive(s, period, t)

\* sum of j * s[t - period + j] for j = 1..upto
RECURSIVE WeightedSum(_, _, _, _)
WeightedSum(s, period, t, upto) ==
  IF upto = 0 THEN R(0)
  ELSE RAdd(RScale(s[t - period + upto], upto, 1),
            WeightedSum(s, period, t, upto - 1))

\* series.rolling(period).apply(dot(x, weights) / weights.sum()) at position t
lwma(s, period, t) ==
  IF t < period THEN NaN
  ELSE RScale(WeightedSum(s, period, t, period), 2, period * (period + 1))

\* sum of s[t - upto + 1 .. t]
RECURSIVE WindowSum(_, _, _)
WindowSum(s, t, upto) ==
  IF upto = 0 THEN R(0) ELSE RAdd(s[t - upto + 1], WindowSum(s, t, upto - 1))

\* series.rolling(period).mean() at position t: absent until the window holds
\* period defined values
RollingMean(s, period, t) ==
  IF t < period THEN NaN ELSE RScale(WindowSum(s, t, period), 1, period)

\* true range at position t from the three columns, NaN skipped by max(axis=1)
TrueRange(high, low, close, t) ==
  LET prevClose == Shift(close, 1, t)
  IN  RMax2(RMax2(RSub(high[t], low[t]), RAbs(RSub(high[t], prevClose))),
            RAbs(RSub(low[t], prevClose)))

TrueRangeSeries(high, low, close) ==
  [t \in 1..Len(close) |-> TrueRange(high, low, close, t)]

\* FeatureSetCore.atr at position t
atr(frame, period, t) ==
  RollingMean(TrueRangeSeries(Col(frame, "high"), Col(frame, "low"),
                              Col(frame, "close")), period, t)

\* close.pct_change() is defined at position t
PctChangeDefined(close, t) ==
  t >= 2 /\ IsNum(close[t]) /\ IsNum(close[t - 1]) /\ close[t - 1].n # 0

\* close.pct_change().rolling(period).std() at position t; the value of a
\* defined standard deviation is not modelled
Volatility(close, period, t) ==
  IF t >= period /\ \A u \in (t - period + 1)..t : PctChangeDefined(close, u)
  THEN Opaque ELSE NaN

\* DataFrame.dropna(): rows without any absent cell, order kept
HasNull(row) == \E c \in DOMAIN row : IsNull(row[c])

\* dropna(how="all"): only rows whose every cell is absent are removed
DropNaAll(frame) ==
  SelectSeq(frame, LAMBDA row : \E c \in DOMAIN row : ~IsNull(row[c]))

DropNa(frame) == SelectSeq(frame, LAMBDA row : ~HasNull(row))

\* DataFrame.dropna(subset=[c])
DropNaSubset(frame, c) == SelectSeq(frame, LAMBDA row : ~IsNull(row[c]))

(***************************************************************************)
(* FeatureSetCore: the batch assembler.                                    *)
(***************************************************************************)
HasColumn(frame, c) == Len(frame) > 0 /\ c \in DOMAIN frame[1]

add_trend_features(frame) ==
  LET close == Col(frame, "close")
  IN  [t \in 1..Len(frame) |->
        LET ema200 == ema(close, SpanSlow, t)
        IN  [ema_20 |-> ema(close, SpanFast, t),
             ema_50 |-> ema(close, SpanMid, t),
             ema_200 |-> ema200,
             lwma_7 |-> lwma(close, LwmaFast, t),
             lwma_20 |-> lwma(close, LwmaMid, t),
             lwma_60 |-> lwma(close, LwmaSlow, t),
             atr_14 |-> atr(frame, AtrPeriod, t),
             trend_slope |-> Diff(close, SlopeLag, t),
             above_ema200 |-> AsInt(RGt(close[t], ema200))] @@ frame[t]]

add_zone_features(frame, zone_step) ==
  [t \in 1..Len(frame) |->
    LET zone == FloorTo(frame[t].close, zone_step)
        dist == RSub(frame[t].close, zone)
    IN  [zone |-> zone,
         distance_from_zone |-> dist,
         near_zone |-> AsInt(RLt(RAbs(dist), R(NearLimit)))] @@ frame[t]]

add_vol_risk_features(frame) ==
  LET close == Col(frame, "close")
  IN  [t \in 1..Len(frame) |->
        [volatility |-> Volatility(close, VolPeriod, t),
         volume_ma |-> IF HasColumn(frame, "volume")
                       THEN ema(Col(frame, "volume"), VolPeriod, t)
                       ELSE R(0)] @@ frame[t]]

build_features(frame) ==
  DropNa(add_vol_risk_features(add_zone_features(add_trend_features(frame),
                                                 ZoneStep)))

(***************************************************************************)
(* FeatureSetCore: the label builders.                                     *)
(***************************************************************************)
\* create_label with a strict noise band: a move equal to the threshold is
\* labelled instead of left absent
LabelOfStrictNoise(close, future_close, threshold) ==
  LET up == AsInt(RGt(RSub(future_close, close), threshold))
      down == IF RGt(RSub(close, future_close), threshold) THEN R(0) ELSE up
  IN  IF RLt(RAbs(RSub(future_close, close)), threshold) THEN NaN ELSE down

\* the value of y for one row, from the three assignments of create_label
LabelOf(close, future_close, threshold) ==
  LET up == AsInt(RGt(RSub(future_close, close), threshold))
      down == IF RGt(RSub(close, future_close), threshold) THEN R(0) ELSE up
  IN  IF RLe(RAbs(RSub(future_close, close)), threshold) THEN NaN ELSE down

create_label(frame, k) ==
  LET close == Col(frame, "close")
  IN  [t \in 1..Len(frame) |->
        [y |-> LabelOf(close[t], Shift(close, -k, t),
                       RScale(frame[t].atr_14, ThrNum, ThrDen))] @@ frame[t]]

MultiLabelled(frame, k) ==
  LET close == Col(frame, "close")
      atr14 == Col(frame, "atr_14")
  IN  [t \in 1..Len(frame) |->
        [y_trend |-> AsInt(RGt(Shift(close, -k, t), close[t])),
         y_zone |-> AsInt(RLt(RAbs(RSub(Shift(close, -k, t), frame[t].zone)),
                              R(NearLimit))),
         y_risk |-> AsInt(RGt(Shift(atr14, -k, t), atr14[t]))] @@ frame[t]]

create_multi_label(frame, k) == DropNa(MultiLabelled(frame, k))

(***************************************************************************)
(* FeatureSetCoreRealtime: the bounded online extractor.                   *)
(***************************************************************************)
\* tick.get(key, default); a tick is a function from its keys to cells
Get(tick, key, default) == IF key \in DOMAIN tick THEN tick[key] ELSE default

\* the dict update() appends; the defaults of open/high/low are the string
\* "price", not the variable price
MakeBar(tick) ==
  LET price == RScale(RAdd(tick["bid"], tick["ask"]), 1, 2)
  IN  [open |-> Get(tick, "open", PriceStr),
       high |-> Get(tick, "high", PriceStr),
       low |-> Get(tick, "low", PriceStr),
       close |-> price,
       volume |-> Get(tick, "volume", R(0))]

\* update() with pop() in place of pop(0): the newest bar is evicted
PushedPopLast(buf, w, tick) ==
  LET appended == Append(buf, MakeBar(tick))
  IN  IF Len(appended) > w THEN SubSeq(appended, 1, Len(appended) - 1)
      ELSE appended

\* self.buffer after update(tick): append, then pop(0) when over the window
Pushed(buf, w, tick) ==
  LET appended == Append(buf, MakeBar(tick))
  IN  IF Len(appended) > w THEN Tail(appended) ELSE appended

feature_cols ==
  <<"open", "high", "low", "close", "volume", "ema_20", "ema_50", "ema_200",
    "lwma_7", "lwma_20", "lwma_60", "atr_14", "trend_slope", "above_ema200",
    "zone", "distance_from_zone", "near_zone">>

\* the DataFrame to_numpy builds from the buffer, before dropna
RtFrame(buf) ==
  LET close == Col(buf, "close")
      volume == Col(buf, "volume")
  IN  [t \in 1..Len(buf) |->
        LET ema200 == EwmAdjusted(close, SpanSlow, t)
            zone == FloorTo(close[t], ZoneStep)
            dist == RSub(close[t], zone)
        IN  [open |-> buf[t].open,
             high |-> close[t],
             low |-> close[t],
             close |-> close[t],
             volume |-> volume[t],
             ema_20 |-> EwmAdjusted(close, SpanFast, t),
             ema_50 |-> EwmAdjusted(close, SpanMid, t),
             ema_200 |-> ema200,
             lwma_7 |-> lwma(close, LwmaFast, t),
             lwma_20 |-> lwma(close, LwmaMid, t),
             lwma_60 |-> lwma(close, LwmaSlow, t),
             close_shift |-> Shift(close, 1, t),
             atr_14 |-> RollingMean(TrueRangeSeries(close, close, close),
                                    AtrPeriod, t),
             trend_slope |-> Diff(close, SlopeLag, t),
             above_ema200 |-> AsInt(RGt(close[t], ema200)),
             zone |-> zone,
             distance_from_zone |-> dist,
             near_zone |-> AsInt(RLt(RAbs(dist), R(NearLimit))),
             volatility |-> Volatility(close, VolPeriod, t),
             volume_ma |-> EwmAdjusted(volume, VolPeriod, t)]]

NoCall == [kind |-> "none", vec |-> <<>>]

NotReady == [kind |-> "not_ready", vec |-> <<>>]

Raised == [kind |-> "raise", vec |-> <<>>]

\* the KeyError update() raises for a tick without bid or ask
KeyError == [kind |-> "key_error", vec |-> <<>>]

Vector(v) == [kind |-> "vector", vec |-> v]

\* row.values.astype(np.float32): ValueError when a cell holds a string
AsFloatRow(row) ==
  IF \E i \in 1..Len(feature_cols) : row[feature_cols[i]].k = "str"
  THEN Raised
  ELSE Vector([i \in 1..Len(feature_cols) |-> row[feature_cols[i]]])

\* the outcome of to_numpy() on a buffer
to_numpy(buf) ==
  IF Len(buf) < ReadyLen THEN NotReady
  ELSE LET clean == DropNa(RtFrame(buf))
       IN  IF Len(clean) = 0 THEN NotReady
           ELSE AsFloatRow(clean[Len(clean)])

(***************************************************************************)
(* The online extractor as a state machine.  sent is the history of the    *)
(* ticks update() accepted; reads counts the to_numpy() calls since the    *)
(* last update(), counted up to 2; result is the outcome of the last call. *)
(***************************************************************************)
\* window sizes an extractor is constructed with
Windows == {DefaultWindow, DefaultWindow + 1}

\* ticks with bid and ask only, with a volume, and with open/high/low too
Ticks ==
  { [bid |-> R(59), ask |-> R(60)],
    [bid |-> R(60), ask |-> R(60), volume |-> R(2)],
    [bid |-> R(59), ask |-> R(59), open |-> R(59), high |-> R(59),
     low |-> R(59), volume |-> R(1)],
    [bid |-> R(61), ask |-> R(61), open |-> R(61), high |-> R(61),
     low |-> R(61)] }

NoFrame == <<>>

InitRt ==
  /\ window \in Windows
  /\ buffer = <<>>
  /\ sent = <<>>
  /\ reads = 0
  /\ result = NoCall

IdleBatch ==
  /\ raw = NoFrame
  /\ df = NoFrame
  /\ prev = NoFrame
  /\ lookahead = 1
  /\ atr_period = AtrPeriod
  /\ pc = "idle"

Init == InitRt /\ IdleBatch

\* ticks without bid or without ask
MalformedTicks ==
  { [ask |-> R(60)],
    [bid |-> R(59), volume |-> R(1)] }

\* tick["bid"] and tick["ask"] both succeed
WellFormed(tick) == {"bid", "ask"} \subseteq DOMAIN tick

\* update() that appends the bar before it reads the prices: the failed call
\* leaves a bar without a close behind
UpdatedPartial(buf, w, tick) ==
  IF WellFormed(tick) THEN Pushed(buf, w, tick)
  ELSE LET appended == Append(buf, [open |-> PriceStr, high |-> PriceStr,
                                    low |-> PriceStr, close |-> NaN,
                                    volume |-> Get(tick, "volume", R(0))])
       IN  IF Len(appended) > w THEN Tail(appended) ELSE appended

\* self.buffer after update(tick): the KeyError of tick["bid"] + tick["ask"]
\* is raised before anything is appended
Updated(buf, w, tick) ==
  IF WellFormed(tick) THEN Pushed(buf, w, tick) ELSE buf

Update(tick) ==
  /\ WellFormed(tick) => Len(sent) < MaxUpdates
  /\ buffer' = Updated(buffer, window, tick)
  /\ sent' = IF WellFormed(tick) THEN Append(sent, tick) ELSE sent
  /\ reads' = 0
  /\ result' = IF WellFormed(tick) THEN NoCall ELSE KeyError
  /\ UNCHANGED <<window, batchVars>>

\* to_numpy() whose DataFrame shares the buffer's dicts: the assignments to
\* df["high"] and df["low"] reach the buffer
ToNumpyInPlace ==
  /\ reads < 2
  /\ result' = to_numpy(buffer)
  /\ reads' = reads + 1
  /\ buffer' = [t \in 1..Len(buffer) |->
                  [buffer[t] EXCEPT !.high = buffer[t].close,
                                    !.low = buffer[t].close]]
  /\ UNCHANGED <<window, sent, batchVars>>

ToNumpy ==
  /\ reads < 2
  /\ result' = to_numpy(buffer)
  /\ reads' = reads + 1
  /\ UNCHANGED <<window, buffer, sent, batchVars>>

Next ==
  \/ \E tick \in Ticks \cup MalformedTicks : Update(tick)
  \/ ToNumpy

Spec == Init /\ [][Next]_vars

(***************************************************************************)
(* The training path of run_pipeline as a state machine: build_features,   *)
(* create_label, dropna(subset=["y"]) and create_multi_label, applied to a *)
(* bar table.  The column selection df_features[FEATURE_COLS] between the  *)
(* last two steps removes columns only and keeps every row; it is left     *)
(* out.  Every row carries its DataFrame index label in the column         *)
(* "index"; prev is the table the last step was applied to.                *)
(***************************************************************************)
BarKinds ==
  { [open |-> R(59), high |-> R(59), low |-> R(59), close |-> R(59),
     volume |-> R(1)],
    [open |-> R(59), high |-> R(62), low |-> R(58), close |-> R(60),
     volume |-> R(2)],
    [open |-> R(61), high |-> R(61), low |-> R(61), close |-> R(61),
     volume |-> R(0)] }

\* bar tables of at most MaxRows rows
BarTables == UNION { [1..n -> BarKinds] : n \in 0..MaxRows }

WithIndex(frame) ==
  [t \in 1..Len(frame) |-> [index |-> R(t - 1)] @@ frame[t]]

\* frame[cols]: the named columns (and the index) of every row
SelectCols(frame, cols) ==
  [t \in 1..Len(frame) |-> [c \in cols \cup {"index"} |-> frame[t][c]]]

WithoutVolume(frame) ==
  SelectCols(frame, {"open", "high", "low", "close"})

IdleRt ==
  /\ window = DefaultWindow
  /\ buffer = <<>>
  /\ sent = <<>>
  /\ reads = 0
  /\ result = NoCall

InitBatch ==
  /\ IdleRt
  /\ \E table \in BarTables, hasVolume \in BOOLEAN :
       raw = IF hasVolume THEN WithIndex(table)
             ELSE WithoutVolume(WithIndex(table))
  /\ df = raw
  /\ prev = raw
  /\ lookahead \in 1..MaxLookahead
  /\ atr_period = AtrPeriod
  /\ pc = "raw"

BuildFeatures ==
  /\ pc = "raw"
  /\ df' = build_features(df)
  /\ prev' = df
  /\ pc' = "features"
  /\ UNCHANGED <<raw, lookahead, atr_period, rtVars>>

CreateLabel ==
  /\ pc = "features"
  /\ df' = create_label(df, lookahead)
  /\ prev' = df
  /\ pc' = "labelled"
  /\ UNCHANGED <<raw, lookahead, atr_period, rtVars>>

DropNoise ==
  /\ pc = "labelled"
  /\ df' = DropNaSubset(df, "y")
  /\ prev' = df
  /\ pc' = "clean"
  /\ UNCHANGED <<raw, lookahead, atr_period, rtVars>>

CreateMultiLabel ==
  /\ pc = "clean"
  /\ df' = create_multi_label(df, lookahead)
  /\ prev' = df
  /\ pc' = "multi"
  /\ UNCHANGED <<raw, lookahead, atr_period, rtVars>>

NextBatch ==
  \/ BuildFeatures
  \/ CreateLabel
  \/ DropNoise
  \/ CreateMultiLabel

SpecBatch == InitBatch /\ [][NextBatch]_vars

(***************************************************************************)
(* FeatureSetCore.atr applied on its own to a bar table, for a period      *)
(* chosen by the caller; the result is kept in the column "atr".           *)
(***************************************************************************)
InitAtr ==
  /\ IdleRt
  /\ \E table \in BarTables : raw = WithIndex(table)
  /\ df = raw
  /\ prev = raw
  /\ lookahead = 1
  /\ atr_period \in 1..MaxPeriod
  /\ pc = "raw"

ComputeAtr ==
  /\ pc = "raw"
  /\ df' = [t \in 1..Len(df) |-> [atr |-> atr(df, atr_period, t)] @@ df[t]]
  /\ prev' = df
  /\ pc' = "atr"
  /\ UNCHANGED <<raw, lookahead, atr_period, rtVars>>

NextAtr == ComputeAtr

SpecAtr == InitAtr /\ [][NextAtr]_vars

(***************************************************************************)
(* Properties of the online extractor (checked under Spec).                *)
(***************************************************************************)
\* the bars of all ticks sent so far, oldest first
SentBars == [i \in 1..Len(sent) |-> MakeBar(sent[i])]

\* every tick sent so far carries bid, ask and at most a volume
BidAskOnly == \A i \in 1..Len(sent) : DOMAIN sent[i] \subseteq {"bid", "ask", "volume"}

\* every tick sent so far carries numeric open, high and low as well
FullTicks == \A i \in 1..Len(sent) : {"open", "high", "low"} \subseteq DOMAIN sent[i]

\* C1: whenever the buffer of a default-window extractor is full after
\* updates with ticks carrying only bid and ask (volume optional), to_numpy()
\* returns a vector of exactly 17 numeric fields, without raising.
C1_FullBufferYieldsVector ==
  (reads > 0 /\ window = DefaultWindow /\ Len(buffer) = window /\ BidAskOnly)
    => /\ result.kind = "vector"
       /\ Len(result.vec) = 17
       /\ \A i \in 1..Len(result.vec) : IsNum(result.vec[i])

\* C2: to_numpy() returns "not ready" whenever the buffer holds fewer bars
\* than the configured window, and produces a vector only when the buffer
\* is full; it never raises for too few ticks.
C2_NotReadyBelowCapacity ==
  reads > 0 =>
    /\ Len(buffer) < window => result = NotReady
    /\ result.kind = "vector" => Len(buffer) = window

\* C3: the buffer never holds more than window bars, and once more than
\* window ticks were sent it holds exactly the bars of the last window
\* ticks, in push order.
C3_BoundedFifo ==
  /\ Len(buffer) <= window
  /\ Len(sent) > window =>
       /\ Len(buffer) = window
       /\ \A i \in 1..window :
            buffer[i] = MakeBar(sent[Len(sent) - window + i])

C3_Witness ==
  /\ Len(sent) > window
  /\ reads > 0
  /\ buffer[1] # buffer[Len(buffer)]
  /\ MakeBar(sent[1]) # buffer[1]

\* the 17 feature values of one row of a feature table
FeatureRow(row) == [i \in 1..Len(feature_cols) |-> row[feature_cols[i]]]

\* C4: when the buffer holds the ReadyLen most recent bars of a table, the
\* vector to_numpy() returns equals the 17 feature values of the last row
\* build_features computes for that table.
C4_BatchStreamingParity ==
  (reads > 0 /\ window = DefaultWindow /\ Len(buffer) = window /\ FullTicks)
    => LET batch == build_features(SentBars)
       IN  /\ result.kind = "vector"
           /\ Len(batch) > 0
           /\ result.vec = FeatureRow(batch[Len(batch)])

\* C5: every bar update() appends for a tick that carries only bid, ask and
\* an optional volume has close = (bid + ask) / 2 and open = high = low =
\* close.
C5_BarIsFlat ==
  BidAskOnly =>
    \A i \in 1..Len(buffer) :
      /\ LET tick == sent[Len(sent) - Len(buffer) + i]
         IN  buffer[i].close = RScale(RAdd(tick["bid"], tick["ask"]), 1, 2)
      /\ buffer[i].open = buffer[i].close
      /\ buffer[i].high = buffer[i].close
      /\ buffer[i].low = buffer[i].close

\* C6: a to_numpy() call leaves the buffer and the window unchanged, and a
\* to_numpy() call that follows another one without an update() in between
\* returns the same outcome.
C6_ToNumpyPure ==
  [][reads' > reads =>
       /\ buffer' = buffer
       /\ window' = window
       /\ (reads > 0 => result' = result)]_vars

C6_Witness ==
  /\ reads = 2
  /\ result.kind = "vector"
  /\ Len(sent) > window

\* C11: update() with a tick that lacks bid or ask fails with an error and
\* has no partial effect: the failed call leaves the buffer and the window
\* unchanged, so every later call sees the extractor as if the tick had
\* never been sent.
C11_FailedUpdateNoEffect ==
  [][\A tick \in MalformedTicks :
       Update(tick) =>
         /\ result'.kind = "key_error"
         /\ buffer' = buffer
         /\ window' = window
         /\ sent' = sent]_vars

C11_Witness ==
  /\ result.kind = "key_error"
  /\ Len(buffer) = window
  /\ Len(sent) > window

(***************************************************************************)
(* Properties of the label builders and the batch assembler (checked under *)
(* SpecBatch).                                                             *)
(***************************************************************************)
\* the noise threshold of a labelled row, atr_14 * 0.3
Threshold(row) == RScale(row.atr_14, ThrNum, ThrDen)

Indices(frame) == {frame[t].index : t \in 1..Len(frame)}

\* C7: create_label leaves y absent for each of the last lookahead rows,
\* whose future close lies beyond the end of the table.
C7_TailLabelAbsent ==
  pc = "labelled" =>
    \A t \in 1..Len(df) : t + lookahead > Len(df) => IsNull(df[t].y)

\* row t of a labelled table has a future reference and lies in the noise
\* band: |future_close - close| <= threshold
IsNoise(frame, t) ==
  /\ t + lookahead <= Len(frame)
  /\ RLe(RAbs(RSub(frame[t + lookahead].close, frame[t].close)),
         Threshold(frame[t]))

\* C8: for every row with a future reference and a defined non-negative
\* threshold, y = 1 iff future_close - close > thr, y = 0 iff
\* close - future_close > thr, and y is absent iff |future_close - close| <=
\* thr; so after dropping the rows with absent y every retained row has y in
\* {0, 1} and every dropped row is noise or has no future reference.
C8_LabelPartition ==
  /\ pc = "labelled" =>
       \A t \in 1..Len(df) :
         (t + lookahead <= Len(df) /\ RLe(R(0), Threshold(df[t]))) =>
           LET close == df[t].close
               future_close == df[t + lookahead].close
               thr == Threshold(df[t])
           IN  /\ df[t].y \in {R(1), R(0), NaN}
               /\ df[t].y = R(1) <=> RGt(RSub(future_close, close), thr)
               /\ df[t].y = R(0) <=> RGt(RSub(close, future_close), thr)
               /\ IsNull(df[t].y) <=> IsNoise(df, t)
  /\ pc = "clean" =>
       /\ \A i \in 1..Len(df) : df[i].y \in {R(0), R(1)}
       /\ \A t \in 1..Len(prev) :
            prev[t].index \notin Indices(df) =>
              (IsNoise(prev, t) \/ t + lookahead > Len(prev))

C8_Witness ==
  /\ pc = "clean"
  /\ \E t \in 1..Len(prev) : t + lookahead <= Len(prev) /\ prev[t].y = R(1)
  /\ \E t \in 1..Len(prev) : t + lookahead <= Len(prev) /\ prev[t].y = R(0)
  /\ \E t \in 1..Len(prev) : IsNoise(prev, t) /\ prev[t].index \notin Indices(df)

\* C9: create_multi_label drops every row without a future reference: the
\* output holds none of the trailing lookahead rows of its input, so at most
\* n - lookahead rows.
C9_TrailingRowsDropped ==
  pc = "multi" =>
    /\ \A t \in 1..Len(prev) :
         t + lookahead > Len(prev) => prev[t].index \notin Indices(df)
    /\ Len(prev) >= lookahead => Len(df) <= Len(prev) - lookahead

\* the output of build_features holds no absent value, is the input without
\* m rows at its head, in input order, and every removed row is a warm-up
\* row of some indicator
C10_ExactRows ==
  LET n == Len(prev)
      m == Len(df)
  IN  /\ \A i \in 1..m : ~HasNull(df[i])
      /\ m <= n
      /\ \A i \in 1..m :
           \A c \in DOMAIN prev[n - m + i] : df[i][c] = prev[n - m + i][c]
      /\ \A t \in 1..(n - m) :
           \/ t < LwmaFast
           \/ t < LwmaMid
           \/ t < LwmaSlow
           \/ t < AtrPeriod
           \/ t <= SlopeLag
           \/ t <= VolPeriod

\* C10 as stated: build_features returns exactly the input rows with every
\* produced column defined, by removing warm-up rows at the head, and its
\* output is strictly shorter than the input for every input table.
C10_StrictlyShorterAlways ==
  pc = "features" => (C10_ExactRows /\ Len(df) < Len(prev))

\* C10 as amended: the same, with the output strictly shorter than the
\* input for every non-empty input table.
C10_StrictlyShorterNonEmpty ==
  pc = "features" => (C10_ExactRows /\ (Len(prev) > 0 => Len(df) < Len(prev)))

C10_Witness ==
  /\ pc = "features"
  /\ Len(df) > 1
  /\ Len(df) < Len(prev)
  /\ df[1].close # df[2].close

(***************************************************************************)
(* Properties of atr (checked under SpecAtr).                              *)
(***************************************************************************)
\* the larger of two defined cells
Larger(x, y) == IF RGt(y, x) THEN y ELSE x

\* the true range of row u >= 2:
\* max(high - low, |high - prev_close|, |low - prev_close|)
FullTrueRange(frame, u) ==
  Larger(Larger(RSub(frame[u].high, frame[u].low),
                RAbs(RSub(frame[u].high, frame[u - 1].close))),
         RAbs(RSub(frame[u].low, frame[u - 1].close)))

\* the true range the code uses: high - low for the first row, which has no
\* previous close
CodeTrueRange(frame, u) ==
  IF u = 1 THEN RSub(frame[1].high, frame[1].low) ELSE FullTrueRange(frame, u)

RECURSIVE SumTrueRange(_, _, _)
SumTrueRange(frame, from, to) ==
  IF from > to THEN R(0)
  ELSE RAdd(CodeTrueRange(frame, to), SumTrueRange(frame, from, to - 1))

\* atr at row t is the simple mean of the period true ranges ending at t
IsMeanTrueRange(t) ==
  /\ IsNum(df[t].atr)
  /\ RScale(df[t].atr, atr_period, 1) = SumTrueRange(prev, t - atr_period + 1, t)

\* C12 as stated: atr is absent for the first period rows (indices 0 ..
\* period-1) and from index period on equals the simple mean of the last
\* period true ranges; it never raises.
C12_AbsentFirstPeriodRows ==
  pc = "atr" =>
    /\ Len(df) = Len(prev)
    /\ \A t \in 1..Len(df) :
         /\ t <= atr_period => IsNull(df[t].atr)
         /\ t > atr_period => IsMeanTrueRange(t)

\* C12 as amended: atr is absent for the first period-1 rows (indices 0 ..
\* period-2) and from index period-1 on equals the simple mean of the last
\* period true ranges, the true range of row 0 being high - low; it never
\* raises.
C12_AbsentFirstPeriodMinusOneRows ==
  pc = "atr" =>
    /\ Len(df) = Len(prev)
    /\ \A t \in 1..Len(df) :
         /\ t < atr_period => IsNull(df[t].atr)
         /\ t >= atr_period => IsMeanTrueRange(t)

C12_Witness ==
  /\ pc = "atr"
  /\ atr_period > 1
  /\ Len(df) > atr_period
  /\ IsNull(df[atr_period - 1].atr)
  /\ IsNum(df[atr_period].atr)
  /\ RGt(df[atr_period].atr, R(0))
  /\ df[atr_period + 1].atr # df[atr_period].atr

====
